---- MODULE Spec2Model ----
(***************************************************************************)
(* Model of api/index.py: the question-answering endpoint of virtual_taa.   *)
(*                                                                          *)
(* The state is the sqlite table knowledge_base, the process phase          *)
(* (startup / serving) and the position of the request being handled.       *)
(* Text is modelled as sequences of one-character strings so that           *)
(* str.lower, str.strip, `in`, re.findall and SQL LIKE are computed rather  *)
(* than assumed.  Requests share no mutable state (the table is only        *)
(* written by init_db), so one request at a time is modelled.               *)
(***************************************************************************)
EXTENDS Integers, Sequences, FiniteSets, TLC

VARIABLES
    phase,        \* "boot": startup_event pending; "serving": requests accepted
    tableExists,  \* knowledge_base exists in the database file
    rows,         \* its rows, in rowid (fetch) order
    initOutcome,  \* what the last init_db call logged: "none", "ok", "error"
    pc,           \* position of the request in answer_question
    auth,         \* Authorization header of the request
    body,         \* request body
    question,     \* local `question` of answer_question (after strip)
    attempt,      \* loop variable of get_db_connection
    connOpen,     \* the connection `conn` of search_knowledge_base is open
    keywords,     \* tokens of search_knowledge_base still to be queried
    results,      \* local `results` of search_knowledge_base
    fetched,      \* <<token, rows fetched>> of every SELECT of this request
    path,         \* steps this request went through, in order
    response,     \* the HTTP response of the request
    searchConns   \* connections opened by searches and not closed

vars == <<phase, tableExists, rows, initOutcome, pc, auth, body, question,
          attempt, connOpen, keywords, results, fetched, path, response,
          searchConns>>

----------------------------------------------------------------------------
(* Bounds of the model *)

\* a question is the concatenation of at most MaxPieces pieces
MaxPieces == 3

\* requests are accepted while fewer than MaxOpenConns connections are leaked
MaxOpenConns == 2

----------------------------------------------------------------------------
(* Texts of the program and of the inputs, as character sequences *)

\* the character U+0060 is written "backtick"
\* "model"
K_model ==
    <<"m", "o", "d", "e", "l">>
\* "docker"
K_docker ==
    <<"d", "o", "c", "k", "e", "r">>
\* "grading"
K_grading ==
    <<"g", "r", "a", "d", "i", "n", "g">>
\* "Use gpt-3.5-turbo-0125"
A_seed_model ==
    <<"U", "s", "e", " ", "g", "p", "t", "-", "3", ".", "5", "-", "t", "u",
      "r", "b", "o", "-", "0", "1", "2", "5">>
\* "Podman is recommended"
A_seed_docker ==
    <<"P", "o", "d", "m", "a", "n", " ", "i", "s", " ", "r", "e", "c", "o",
      "m", "m", "e", "n", "d", "e", "d">>
\* "Scores appear as X/10"
A_seed_grading ==
    <<"S", "c", "o", "r", "e", "s", " ", "a", "p", "p", "e", "a", "r", " ",
      "a", "s", " ", "X", "/", "1", "0">>
\* "You must use gpt-3.5-turbo-0125, even if the AI Proxy supports gpt-4o-mini."
A_static_model ==
    <<"Y", "o", "u", " ", "m", "u", "s", "t", " ", "u", "s", "e", " ",
      "backtick", "g", "p", "t", "-", "3", ".", "5", "-", "t", "u", "r", "b",
      "o", "-", "0", "1", "2", "5", "backtick", ",", " ", "e", "v", "e", "n",
      " ", "i", "f", " ", "t", "h", "e", " ", "A", "I", " ", "P", "r", "o",
      "x", "y", " ", "s", "u", "p", "p", "o", "r", "t", "s", " ", "backtick",
      "g", "p", "t", "-", "4", "o", "-", "m", "i", "n", "i", "backtick", ".">>
\* "While Docker is acceptable, we recommend using Podman for this course."
A_static_docker ==
    <<"W", "h", "i", "l", "e", " ", "D", "o", "c", "k", "e", "r", " ", "i",
      "s", " ", "a", "c", "c", "e", "p", "t", "a", "b", "l", "e", ",", " ",
      "w", "e", " ", "r", "e", "c", "o", "m", "m", "e", "n", "d", " ", "u",
      "s", "i", "n", "g", " ", "P", "o", "d", "m", "a", "n", " ", "f", "o",
      "r", " ", "t", "h", "i", "s", " ", "c", "o", "u", "r", "s", "e", ".">>
\* "I couldn't find a specific answer. Try rephrasing or ask about: course policies, grading, or technical requirements."
A_fallback ==
    <<"I", " ", "c", "o", "u", "l", "d", "n", "'", "t", " ", "f", "i", "n",
      "d", " ", "a", " ", "s", "p", "e", "c", "i", "f", "i", "c", " ", "a",
      "n", "s", "w", "e", "r", ".", " ", "T", "r", "y", " ", "r", "e", "p",
      "h", "r", "a", "s", "i", "n", "g", " ", "o", "r", " ", "a", "s", "k",
      " ", "a", "b", "o", "u", "t", ":", " ", "c", "o", "u", "r", "s", "e",
      " ", "p", "o", "l", "i", "c", "i", "e", "s", ",", " ", "g", "r", "a",
      "d", "i", "n", "g", ",", " ", "o", "r", " ", "t", "e", "c", "h", "n",
      "i", "c", "a", "l", " ", "r", "e", "q", "u", "i", "r", "e", "m", "e",
      "n", "t", "s", ".">>
\* "scores"
K_scores ==
    <<"s", "c", "o", "r", "e", "s">>
\* "exam"
K_exam ==
    <<"e", "x", "a", "m">>
\* "bonus"
K_bonus ==
    <<"b", "o", "n", "u", "s">>
\* "late"
K_late ==
    <<"l", "a", "t", "e">>
\* "See grading page"
A_cur_scores ==
    <<"S", "e", "e", " ", "g", "r", "a", "d", "i", "n", "g", " ", "p", "a",
      "g", "e">>
\* "Exam grading is final"
A_cur_exam ==
    <<"E", "x", "a", "m", " ", "g", "r", "a", "d", "i", "n", "g", " ", "i",
      "s", " ", "f", "i", "n", "a", "l">>
\* "Bonus scores exist"
A_cur_bonus ==
    <<"B", "o", "n", "u", "s", " ", "s", "c", "o", "r", "e", "s", " ", "e",
      "x", "i", "s", "t">>
\* "Late scores policy"
A_cur_late ==
    <<"L", "a", "t", "e", " ", "s", "c", "o", "r", "e", "s", " ", "p", "o",
      "l", "i", "c", "y">>
\* " "
P_space ==
    <<" ">>
\* "Docker"
P_Docker ==
    <<"D", "o", "c", "k", "e", "r">>
\* "xyz"
P_xyz ==
    <<"x", "y", "z">>
\* "mod_l"
P_mod_l ==
    <<"m", "o", "d", "_", "l">>

----------------------------------------------------------------------------
(* Characters *)

UpperCase ==
    <<"A", "B", "C", "D", "E", "F", "G", "H", "I", "J", "K", "L", "M",
      "N", "O", "P", "Q", "R", "S", "T", "U", "V", "W", "X", "Y", "Z">>

LowerCase ==
    <<"a", "b", "c", "d", "e", "f", "g", "h", "i", "j", "k", "l", "m",
      "n", "o", "p", "q", "r", "s", "t", "u", "v", "w", "x", "y", "z">>

Digits ==
    {"0", "1", "2", "3", "4", "5", "6", "7", "8", "9"}

\* the characters \w matches (on the ASCII texts of this model)
WordChars ==
    {UpperCase[i] : i \in 1..26} \cup {LowerCase[i] : i \in 1..26}
        \cup Digits \cup {"_"}

IsWordChar(c) ==
    c \in WordChars

\* the characters str.strip() removes
IsSpace(c) ==
    c \in {" ", "\t", "\n", "\r"}

\* str.lower() on one character
LowerChar(c) ==
    IF \E i \in 1..26 : UpperCase[i] = c
    THEN LowerCase[CHOOSE i \in 1..26 : UpperCase[i] = c]
    ELSE c

\* question.lower()
lower(s) ==
    [i \in 1..Len(s) |-> LowerChar(s[i])]

RECURSIVE lstrip(_)
lstrip(s) ==
    IF s # <<>> /\ IsSpace(Head(s)) THEN lstrip(Tail(s)) ELSE s

RECURSIVE rstrip(_)
rstrip(s) ==
    IF s # <<>> /\ IsSpace(s[Len(s)])
    THEN rstrip(SubSeq(s, 1, Len(s) - 1))
    ELSE s

\* a strip that removes nothing
strip_noop(s) ==
    s

\* str.strip()
strip(s) ==
    rstrip(lstrip(s))

\* Python's `sub in s`
Contains(sub, s) ==
    \E i \in 1..(Len(s) - Len(sub) + 1) : SubSeq(s, i, i + Len(sub) - 1) = sub

Min(S) ==
    CHOOSE x \in S : \A y \in S : x <= y

Max(S) ==
    CHOOSE x \in S : \A y \in S : x >= y

----------------------------------------------------------------------------
(* Tokenizer: re.findall(r'\b\w{4,}\b', question.lower()) *)

\* the {4,} of the pattern
MinTokenLen == 4

\* number of consecutive word characters of s from position i on
RECURSIVE RunLen(_, _)
RunLen(s, i) ==
    IF i > Len(s) \/ ~IsWordChar(s[i]) THEN 0 ELSE 1 + RunLen(s, i + 1)

\* the non-overlapping matches of \b\w{m,}\b in s from position i on, where
\* i starts a run or is outside one: a match is a whole maximal run of word
\* characters (the quantifier is greedy and \b fails inside a run)
RECURSIVE FindAllFrom(_, _, _)
FindAllFrom(s, i, m) ==
    IF i > Len(s) THEN <<>>
    ELSE LET n == RunLen(s, i)
         IN  IF n = 0 THEN FindAllFrom(s, i + 1, m)
             ELSE IF n >= m
                  THEN <<SubSeq(s, i, i + n - 1)>> \o FindAllFrom(s, i + n, m)
                  ELSE FindAllFrom(s, i + n, m)

\* a tokenizer that also keeps runs of 3 characters
find_keywords_min3(q) ==
    FindAllFrom(lower(q), 1, 3)

\* keywords = re.findall(r'\b\w{4,}\b', question.lower())
find_keywords(q) ==
    FindAllFrom(lower(q), 1, MinTokenLen)

----------------------------------------------------------------------------
(* The Store's query: WHERE keyword LIKE ? OR answer LIKE ? *)

\* SQLite's LIKE compares ASCII letters without regard to case
SqlFold(c) ==
    LowerChar(c)

\* SQLite's LIKE: % matches any sequence of characters, _ any one character
RECURSIVE Like(_, _)
Like(p, t) ==
    IF p = <<>> THEN t = <<>>
    ELSE IF Head(p) = "%"
         THEN Like(Tail(p), t) \/ (t # <<>> /\ Like(p, Tail(t)))
         ELSE /\ t # <<>>
              /\ (Head(p) = "_" \/ SqlFold(Head(p)) = SqlFold(Head(t)))
              /\ Like(Tail(p), Tail(t))

\* the bound parameter f"%{keyword}%"
LikePattern(keyword) ==
    <<"%">> \o keyword \o <<"%">>

\* cursor.fetchall() of the SELECT for one keyword, in rowid order
Select(keyword, tbl) ==
    SelectSeq(tbl, LAMBDA r : \/ Like(LikePattern(keyword), r.keyword)
                              \/ Like(LikePattern(keyword), r.answer))

----------------------------------------------------------------------------
(* Result assembly of search_knowledge_base *)

\* links are cut at unique_results[:3]
MaxLinks == 3

Ok(answer, links) ==
    [status |-> 200, detail |-> "", answer |-> answer, links |-> links]

Err(code, detail) ==
    [status |-> code, detail |-> detail, answer |-> <<>>, links |-> <<>>]

NoResponse ==
    [status |-> 0, detail |-> "", answer |-> <<>>, links |-> <<>>]

\* the loop over results with seen_urls
RECURSIVE DedupFrom(_, _)
DedupFrom(res, seen_urls) ==
    IF res = <<>> THEN <<>>
    ELSE IF Head(res).url \notin seen_urls
         THEN <<Head(res)>> \o DedupFrom(Tail(res), seen_urls \cup {Head(res).url})
         ELSE DedupFrom(Tail(res), seen_urls)

\* a result assembly that keeps every row
unique_results_all(res) ==
    res

unique_results(res) ==
    DedupFrom(res, {})

ResultLinks(u) ==
    [i \in 1..(IF Len(u) < MaxLinks THEN Len(u) ELSE MaxLinks) |->
        [url |-> u[i].url, text |-> u[i].snippet]]

\* what search_knowledge_base returns once the queries are done
SearchResult(res) ==
    IF res = <<>>
    THEN Ok(A_fallback, <<>>)
    ELSE Ok(unique_results(res)[1].answer, ResultLinks(unique_results(res)))

----------------------------------------------------------------------------
(* Static responder: the dict common_responses, in insertion order *)

common_responses ==
    << [keyword |-> K_model,
        response |-> Ok(A_static_model,
            <<[url |-> "https://discourse.example.com/model",
               text |-> "Model usage guidelines"]>>)],
       [keyword |-> K_docker,
        response |-> Ok(A_static_docker,
            <<[url |-> "https://example.com/containers",
               text |-> "Container Guidelines"]>>)] >>

StaticHits(q) ==
    {i \in 1..Len(common_responses) :
        Contains(common_responses[i].keyword, lower(q))}

\* a lookup in which the last matching keyword wins
static_match_last(q) ==
    IF StaticHits(q) = {} THEN 0 ELSE Max(StaticHits(q))

\* index of the entry the for loop returns, 0 when it falls through
static_match(q) ==
    IF StaticHits(q) = {} THEN 0 ELSE Min(StaticHits(q))

----------------------------------------------------------------------------
(* The Store *)

Row(k, a, u, s) ==
    [keyword |-> k, answer |-> a, url |-> u, snippet |-> s]

\* sample_data of init_db
sample_data ==
    << Row(K_model, A_seed_model, "https://example.com/model", "Model guidelines"),
       Row(K_docker, A_seed_docker, "https://example.com/docker", "Container info"),
       Row(K_grading, A_seed_grading, "https://example.com/grading", "Grading policy") >>

\* a table filled by hand before the service starts: keywords are not
\* unique and several rows share a url
CuratedTable ==
    << Row(K_grading, A_seed_grading, "https://example.com/grading", "Grading policy"),
       Row(K_scores, A_cur_scores, "https://example.com/grading", "Scores FAQ"),
       Row(K_exam, A_cur_exam, "https://example.com/exam", "Exam rules"),
       Row(K_bonus, A_cur_bonus, "https://example.com/bonus", "Bonus marks"),
       Row(K_late, A_cur_late, "https://example.com/late", "Late policy") >>

\* contents the database file can have when the process starts
InitialTables ==
    {<<>>, sample_data, CuratedTable}

----------------------------------------------------------------------------
(* Requests *)

Pieces ==
    {P_space, K_grading, K_scores, K_model, P_Docker, P_xyz, P_mod_l}

RECURSIVE QuestionsOf(_)
QuestionsOf(n) ==
    IF n = 0 THEN {<<>>}
    ELSE {p \o q : p \in Pieces, q \in QuestionsOf(n - 1)}

Questions ==
    UNION {QuestionsOf(n) : n \in 0..MaxPieces}

\* request bodies: not JSON; a JSON object without "question", with
\* "question": null, or with a string
Bodies ==
    {[kind |-> "malformed", q |-> "absent", text |-> <<>>],
     [kind |-> "object", q |-> "absent", text |-> <<>>],
     [kind |-> "object", q |-> "null", text |-> <<>>]}
        \cup {[kind |-> "object", q |-> "str", text |-> t] : t \in Questions}

\* Authorization header: none, a bearer token other than API_TOKEN, API_TOKEN
AuthHeaders ==
    {"missing", "wrong", "valid"}

NoBody ==
    [kind |-> "none", q |-> "absent", text |-> <<>>]

----------------------------------------------------------------------------
(* Program constants *)

\* max_retries of get_db_connection, raised by one
max_retries_plus_one ==
    3 + 1

max_retries == 3

\* status of HTTPBearer() (auto_error left on) for a request without bearer
\* credentials: 403 in the FastAPI releases that answer "Not authenticated"
\* with HTTP_403_FORBIDDEN, 401 in the later ones; the repository pins none
NotAuthenticatedStatus ==
    {401, 403}

----------------------------------------------------------------------------
(* State machine *)

Count(seq, x) ==
    Cardinality({i \in 1..Len(seq) : seq[i] = x})

Init ==
    /\ phase = "boot"
    /\ tableExists \in BOOLEAN
    /\ rows \in (IF tableExists THEN InitialTables ELSE {<<>>})
    /\ initOutcome = "none"
    /\ pc = "idle"
    /\ auth = "missing"
    /\ body = NoBody
    /\ question = <<>>
    /\ attempt = 0
    /\ connOpen = FALSE
    /\ keywords = <<>>
    /\ results = <<>>
    /\ fetched = <<>>
    /\ path = <<>>
    /\ response = NoResponse
    /\ searchConns = 0

\* startup_event -> init_db().  fault names the statement that raises, if
\* any: sqlite3.connect, CREATE TABLE, or the INSERT/commit (which only runs
\* when COUNT(*) is 0 and whose transaction is rolled back when it raises).
\* The except clause logs the error and init_db returns normally.
InitDb ==
    /\ phase = "boot"
    /\ \E fault \in {"none", "connect", "create", "insert"} :
        /\ fault = "insert" => rows = <<>>
        /\ tableExists' = (tableExists \/ fault \in {"none", "insert"})
        /\ rows' = IF fault = "none" /\ rows = <<>> THEN sample_data ELSE rows
        /\ initOutcome' = IF fault = "none" THEN "ok" ELSE "error"
    /\ phase' = "serving"
    /\ UNCHANGED <<pc, auth, body, question, attempt, connOpen, keywords,
                   results, fetched, path, response, searchConns>>

\* a POST / arrives
Receive ==
    /\ phase = "serving"
    /\ pc = "idle"
    /\ searchConns < MaxOpenConns
    /\ \E a \in AuthHeaders, b \in Bodies :
        /\ auth' = a
        /\ body' = b
    /\ pc' = "bearer"
    /\ question' = <<>>
    /\ attempt' = 0
    /\ connOpen' = FALSE
    /\ keywords' = <<>>
    /\ results' = <<>>
    /\ fetched' = <<>>
    /\ path' = <<>>
    /\ response' = NoResponse
    /\ UNCHANGED <<phase, tableExists, rows, initOutcome, searchConns>>

\* Depends(security_scheme): HTTPBearer() rejects a request that carries no
\* bearer credentials before verify_token is called
BearerScheme ==
    /\ pc = "bearer"
    /\ path' = Append(path, "bearer")
    /\ IF auth = "missing"
       THEN /\ \E s \in NotAuthenticatedStatus :
                response' = Err(s, "Not authenticated")
            /\ pc' = "done"
       ELSE /\ pc' = "verify"
            /\ UNCHANGED response
    /\ UNCHANGED <<phase, tableExists, rows, initOutcome, auth, body, question,
                   attempt, connOpen, keywords, results, fetched, searchConns>>

\* verify_token
VerifyToken ==
    /\ pc = "verify"
    /\ path' = Append(path, "verify_token")
    /\ IF auth # "valid"
       THEN /\ response' = Err(401, "Invalid or missing API token")
            /\ pc' = "done"
       ELSE /\ pc' = "read"
            /\ UNCHANGED response
    /\ UNCHANGED <<phase, tableExists, rows, initOutcome, auth, body, question,
                   attempt, connOpen, keywords, results, fetched, searchConns>>

\* answer_question up to the validation of the question: request.json()
\* raises on a body that is not JSON and None.strip() raises on a null
\* question, both caught by `except Exception`; the 400 is an HTTPException
\* and is re-raised as it is
ReadBody ==
    /\ pc = "read"
    /\ path' = Append(path, "read")
    /\ IF body.kind = "malformed" \/ body.q = "null"
       THEN /\ response' = Err(500, "Internal server error")
            /\ pc' = "done"
            /\ UNCHANGED question
       ELSE /\ question' = IF body.q = "absent" THEN <<>> ELSE strip(body.text)
            /\ IF question' = <<>>
               THEN /\ response' = Err(400, "Question is required")
                    /\ pc' = "done"
               ELSE /\ pc' = "static"
                    /\ UNCHANGED response
    /\ UNCHANGED <<phase, tableExists, rows, initOutcome, auth, body, attempt,
                   connOpen, keywords, results, fetched, searchConns>>

\* the loop over common_responses; on a miss search_knowledge_base is called
StaticCheck ==
    /\ pc = "static"
    /\ path' = Append(path, "static")
    /\ IF static_match(question) # 0
       THEN /\ response' = common_responses[static_match(question)].response
            /\ pc' = "done"
       ELSE /\ pc' = "connect"
            /\ UNCHANGED response
    /\ attempt' = 0
    /\ UNCHANGED <<phase, tableExists, rows, initOutcome, auth, body, question,
                   connOpen, keywords, results, fetched, searchConns>>

\* one iteration of the loop of get_db_connection.  On success the
\* connection is returned and search_knowledge_base tokenizes the question.
\* The HTTPException of the last failed attempt is caught by the
\* `except Exception` of search_knowledge_base and raised again as a 500.
ConnectAttempt ==
    /\ pc = "connect"
    /\ \E ok \in BOOLEAN :
        IF ok
        THEN /\ path' = Append(path, "connect_ok")
             /\ connOpen' = TRUE
             /\ searchConns' = searchConns + 1
             /\ keywords' = find_keywords(question)
             /\ pc' = "query"
             /\ UNCHANGED <<attempt, response>>
        ELSE /\ path' = Append(path, "connect_fail")
             /\ IF attempt = max_retries - 1
                THEN /\ response' = Err(500, "Error searching knowledge base")
                     /\ pc' = "done"
                     /\ UNCHANGED attempt
                ELSE /\ attempt' = attempt + 1
                     /\ UNCHANGED <<response, pc>>
             /\ UNCHANGED <<connOpen, searchConns, keywords>>
    /\ UNCHANGED <<phase, tableExists, rows, initOutcome, auth, body, question,
                   results, fetched>>

\* one iteration of `for keyword in keywords`.  The SELECT raises "no such
\* table" when knowledge_base does not exist; the except clause raises the
\* 500 and conn.close() is not reached.
ExecuteQuery ==
    /\ pc = "query"
    /\ keywords # <<>>
    /\ path' = Append(path, "select")
    /\ IF ~tableExists
       THEN /\ response' = Err(500, "Error searching knowledge base")
            /\ pc' = "done"
            /\ UNCHANGED <<keywords, results, fetched>>
       ELSE /\ results' = results \o Select(Head(keywords), rows)
            /\ fetched' = Append(fetched, <<Head(keywords), Select(Head(keywords), rows)>>)
            /\ keywords' = Tail(keywords)
            /\ UNCHANGED <<response, pc>>
    /\ UNCHANGED <<phase, tableExists, rows, initOutcome, auth, body, question,
                   attempt, connOpen, searchConns>>

\* after the loop: conn.close(), then the fallback or the deduplicated result
FinishSearch ==
    /\ pc = "query"
    /\ keywords = <<>>
    /\ path' = Append(path, "close")
    /\ connOpen' = FALSE
    /\ searchConns' = searchConns - 1
    /\ response' = SearchResult(results)
    /\ pc' = "done"
    /\ UNCHANGED <<phase, tableExists, rows, initOutcome, auth, body, question,
                   attempt, keywords, results, fetched>>

\* the response is sent and the locals of the request are dropped.  A
\* connection that was left open is closed only if and when the interpreter
\* finalizes the unreferenced object, which the code does not control.
Respond ==
    /\ pc = "done"
    /\ \E finalized \in BOOLEAN :
        searchConns' = IF connOpen /\ finalized
                       THEN searchConns - 1
                       ELSE searchConns
    /\ pc' = "idle"
    /\ auth' = "missing"
    /\ body' = NoBody
    /\ question' = <<>>
    /\ attempt' = 0
    /\ connOpen' = FALSE
    /\ keywords' = <<>>
    /\ results' = <<>>
    /\ fetched' = <<>>
    /\ path' = <<>>
    /\ response' = NoResponse
    /\ UNCHANGED <<phase, tableExists, rows, initOutcome>>

\* the process ends and a new one starts: its connections are gone and
\* startup_event runs again on the same database file
Restart ==
    /\ phase = "serving"
    /\ pc = "idle"
    /\ phase' = "boot"
    /\ initOutcome' = "none"
    /\ pc' = "idle"
    /\ auth' = "missing"
    /\ body' = NoBody
    /\ question' = <<>>
    /\ attempt' = 0
    /\ connOpen' = FALSE
    /\ keywords' = <<>>
    /\ results' = <<>>
    /\ fetched' = <<>>
    /\ path' = <<>>
    /\ response' = NoResponse
    /\ searchConns' = 0
    /\ UNCHANGED <<tableExists, rows>>

Next ==
    \/ InitDb
    \/ Receive
    \/ BearerScheme
    \/ VerifyToken
    \/ ReadBody
    \/ StaticCheck
    \/ ConnectAttempt
    \/ ExecuteQuery
    \/ FinishSearch
    \/ Respond
    \/ Restart

Spec ==
    Init /\ [][Next]_vars

TypeOK ==
    /\ phase \in {"boot", "serving"}
    /\ tableExists \in BOOLEAN
    /\ ~tableExists => rows = <<>>
    /\ pc \in {"idle", "bearer", "verify", "read", "static", "connect", "query", "done"}
    /\ attempt \in 0..max_retries
    /\ searchConns \in 0..MaxOpenConns

----------------------------------------------------------------------------
(* Properties *)

\* the request is authenticated and its body carries a string question
StringQuestion ==
    auth = "valid" /\ body.kind = "object" /\ body.q = "str"

Connects ==
    Count(path, "connect_ok") + Count(path, "connect_fail")

\* the question as sent contains a static keyword
C1_StaticCase ==
    /\ StringQuestion
    /\ \/ Contains(K_model, lower(body.text))
       \/ Contains(K_docker, lower(body.text))

\* C1: an authenticated request whose question contains "model" or "docker"
\* (in any case) is answered with the fixed response of the first of the
\* two, in that order, that occurs in it, whatever the table holds; the
\* search is not called and no connection to the Store is attempted.
C1_StaticFirstKeywordWins ==
    C1_StaticCase =>
        /\ Connects = 0
        /\ Count(path, "select") = 0
        /\ ~connOpen
        /\ pc = "done" =>
            response = IF Contains(K_model, lower(body.text))
                       THEN common_responses[1].response
                       ELSE common_responses[2].response

\* a question with both keywords, "docker" first, over the seeded table
C1_Witness ==
    /\ pc = "done"
    /\ StringQuestion
    /\ body.text = P_Docker \o P_space \o K_model
    /\ rows = sample_data
    /\ response = Ok(A_static_model,
                     <<[url |-> "https://discourse.example.com/model",
                        text |-> "Model usage guidelines"]>>)

\* C2: a request without bearer token or with a wrong one ends in 401 and
\* its body is never read.
C2_UnauthenticatedIs401 ==
    (pc # "idle" /\ auth \in {"missing", "wrong"}) =>
        /\ Count(path, "read") = 0
        /\ pc = "done" => response.status = 401

\* the question field is absent, empty or whitespace only
C3_EmptyCase ==
    /\ auth = "valid"
    /\ body.kind = "object"
    /\ \/ body.q = "absent"
       \/ body.q = "str" /\ \A i \in 1..Len(body.text) : IsSpace(body.text[i])

\* C3: an authenticated request whose question is absent, empty or
\* whitespace only ends with status 400 "Question is required" (not a 500),
\* and neither the static check nor the search runs for it.
C3_EmptyQuestionRejected ==
    C3_EmptyCase =>
        /\ Count(path, "static") = 0
        /\ Connects = 0
        /\ Count(path, "select") = 0
        /\ pc = "done" => response = Err(400, "Question is required")

C3_Witness ==
    /\ pc = "done"
    /\ auth = "valid"
    /\ body.q = "str"
    /\ body.text = P_space \o P_space
    /\ response.status = 400

\* s has four word characters in a row
HasLongRun(s) ==
    \E i \in 1..(Len(s) - 3) : \A j \in i..(i + 3) : IsWordChar(s[j])

\* a non-blank question without a token and without a static keyword
C4_Case ==
    /\ StringQuestion
    /\ \E i \in 1..Len(body.text) : ~IsSpace(body.text[i])
    /\ ~HasLongRun(body.text)
    /\ ~Contains(K_model, lower(body.text))
    /\ ~Contains(K_docker, lower(body.text))

\* C4 as stated: such a question issues no query and is always answered
\* with the fallback.
C4_AlwaysFallback ==
    C4_Case =>
        /\ Count(path, "select") = 0
        /\ pc = "done" => response = Ok(A_fallback, <<>>)

\* C4, amended: a non-blank question without a token of 4 or more word
\* characters and without a static keyword issues no query; it is answered
\* with the fallback and no links when the connection was opened, and with
\* a 500 when all three connection attempts failed.
C4_NoTokenNoQuery ==
    C4_Case =>
        /\ Count(path, "select") = 0
        /\ pc = "done" =>
            IF Count(path, "connect_ok") = 1
            THEN response = Ok(A_fallback, <<>>)
            ELSE /\ Count(path, "connect_fail") = 3
                 /\ response = Err(500, "Error searching knowledge base")

C4_Witness ==
    /\ pc = "done"
    /\ StringQuestion
    /\ body.text = P_xyz \o P_space \o P_xyz
    /\ rows = CuratedTable
    /\ Count(path, "close") = 1
    /\ response = Ok(A_fallback, <<>>)

\* the search of this request ran to its end with at least one matched row
C5_Case ==
    pc = "done" /\ Count(path, "close") = 1 /\ results # <<>>

MatchedUrls ==
    {results[k].url : k \in 1..Len(results)}

\* position of the first matched row with url u
FirstMatch(u) ==
    Min({k \in 1..Len(results) : results[k].url = u})

RECURSIVE Flatten(_)
Flatten(f) ==
    IF f = <<>> THEN <<>> ELSE Head(f)[2] \o Flatten(Tail(f))

\* C5: the matched rows are those of the tokens in token order, each in
\* fetch order; no two links of a search result share a url; the links are
\* the first occurrences of the first (up to three) distinct urls in that
\* order, each with the snippet of that first row; the answer is the answer
\* of the first row.
C5_DedupByUrl ==
    C5_Case =>
        LET links == response.links
            n == Cardinality(MatchedUrls)
        IN  /\ response.status = 200
            /\ results = Flatten(fetched)
            /\ \A i, j \in 1..Len(links) : i # j => links[i].url # links[j].url
            /\ Len(links) = IF n < 3 THEN n ELSE 3
            /\ \A i \in 1..Len(links) :
                /\ links[i].url \in MatchedUrls
                /\ links[i].text = results[FirstMatch(links[i].url)].snippet
                /\ Cardinality({u \in MatchedUrls :
                        FirstMatch(u) < FirstMatch(links[i].url)}) = i - 1
            /\ response.answer = results[1].answer

\* two tokens, rows with a shared url matched more than once, and more
\* distinct urls than links
C5_Witness ==
    /\ C5_Case
    /\ Len(fetched) = 2
    /\ \E i, j \in 1..Len(results) :
        i < j /\ results[i].url = results[j].url /\ results[i] # results[j]
    /\ Cardinality(MatchedUrls) > 3
    /\ Len(response.links) = 3

\* C6: every init_db call on an absent or empty table leaves exactly the
\* three seed rows, and a call on a table with rows changes nothing.
C6_InitDbSeedsOnce ==
    [][(phase = "boot" /\ phase' = "serving") =>
        IF rows # <<>>
        THEN tableExists' /\ rows' = rows
        ELSE tableExists' /\ rows' = sample_data]_vars

\* init_db calls that log no error: an absent or empty table gets exactly
\* sample_data and a table with rows is left as it is; and no step of the
\* service ever changes or removes a row of a non-empty table.
InitDbOkSeedsOnce ==
    [][/\ (phase = "boot" /\ phase' = "serving" /\ initOutcome' = "ok") =>
            IF rows # <<>>
            THEN tableExists' /\ rows' = rows
            ELSE tableExists' /\ rows' = sample_data
       /\ rows # <<>> => rows' = rows]_vars

\* C7: when a search runs its first SELECT, startup has completed and the
\* table exists with at least one row.
C7_TableReadyBeforeQuery ==
    (pc = "query" /\ keywords # <<>> /\ Count(path, "select") = 0) =>
        /\ phase = "serving"
        /\ initOutcome # "none"
        /\ tableExists
        /\ rows # <<>>

\* C8: once a request has ended, the connection its search opened is
\* closed, and no connection of an earlier search is still open.
C8_ConnectionReleased ==
    pc \in {"done", "idle"} => (~connOpen /\ searchConns = 0)

\* C9: at most 3 connection attempts per request; the first successful one
\* ends the loop and its connection is the one the search uses; three
\* failures end the request with a 500 and nothing is retried.
C9_BoundedConnect ==
    /\ Connects <= 3
    /\ Count(path, "connect_ok") <= 1
    /\ \A i, j \in 1..Len(path) :
        (i < j /\ path[i] = "connect_ok") =>
            path[j] \notin {"connect_ok", "connect_fail"}
    /\ pc = "connect" => (attempt < 3 /\ Count(path, "connect_fail") = attempt)
    /\ pc = "query" => (connOpen /\ Count(path, "connect_ok") = 1)
    /\ Count(path, "connect_fail") = 3 =>
        /\ pc = "done"
        /\ Count(path, "connect_ok") = 0
        /\ ~connOpen
        /\ response.status = 500

C9_Witness ==
    /\ pc = "done"
    /\ Count(path, "connect_fail") = 3
    /\ response = Err(500, "Error searching knowledge base")

\* the rows of the table in which tok occurs literally, without regard to
\* case, in keyword or answer
LiteralMatches(tok) ==
    SelectSeq(rows, LAMBDA r : \/ Contains(lower(tok), lower(r.keyword))
                               \/ Contains(lower(tok), lower(r.answer)))

\* C10: the rows fetched for a token are exactly the rows in which the
\* token occurs literally (case-insensitively) in keyword or answer.
C10_LiteralSubstring ==
    \A i \in 1..Len(fetched) : fetched[i][2] = LiteralMatches(fetched[i][1])

====
